---- MODULE Spec2Model ----
(***************************************************************************)
(* Model of main.py: the USB selector for eight PCs (Usb8Selector) with    *)
(* its device drivers TS3USB30, PI3USB14 (A and B), HC137 and MCP23017.   *)
(* Every program position is a label "L<n>" named after the source line   *)
(* about to execute; a label with a suffix is one pin write of a method   *)
(* called on that line.  Two threads of control exist: "main" (the        *)
(* constructor, then a caller of the public API) and "irq" (the handler   *)
(* _on_mcp_int).  While the handler runs, main is suspended.              *)
(***************************************************************************)
EXTENDS Integers, Sequences, FiniteSets, TLC

\* Number of panel switches that are operated (SW0 .. SW(MaxSw-1)).
MaxSw == 3
\* select_pc is called with indices from -ArgSpan to 7 + ArgSpan.
ArgSpan == 1
\* Number of handler runs that may preempt the first API call made after
\* construction (SpecIrq only).
MaxPreempt == 1

\* Value of an attribute or local that has not been assigned yet.
Unassigned == -2

\* self.pcs (Python index i is pcs[i + 1]).
pcs == <<
  [index |-> 0, sw_bit |-> 7, led_bit |-> 0, mux_side |-> "B", mux_sel |-> 3, ts3_side |-> "B", hc_addr |-> 0],
  [index |-> 1, sw_bit |-> 6, led_bit |-> 1, mux_side |-> "B", mux_sel |-> 2, ts3_side |-> "B", hc_addr |-> 1],
  [index |-> 2, sw_bit |-> 5, led_bit |-> 2, mux_side |-> "B", mux_sel |-> 1, ts3_side |-> "B", hc_addr |-> 2],
  [index |-> 3, sw_bit |-> 4, led_bit |-> 3, mux_side |-> "B", mux_sel |-> 0, ts3_side |-> "B", hc_addr |-> 3],
  [index |-> 4, sw_bit |-> 3, led_bit |-> 4, mux_side |-> "A", mux_sel |-> 3, ts3_side |-> "A", hc_addr |-> 4],
  [index |-> 5, sw_bit |-> 2, led_bit |-> 5, mux_side |-> "A", mux_sel |-> 2, ts3_side |-> "A", hc_addr |-> 5],
  [index |-> 6, sw_bit |-> 1, led_bit |-> 6, mux_side |-> "A", mux_sel |-> 1, ts3_side |-> "A", hc_addr |-> 6],
  [index |-> 7, sw_bit |-> 0, led_bit |-> 7, mux_side |-> "A", mux_sel |-> 0, ts3_side |-> "A", hc_addr |-> 7] >>

PC(i) == pcs[i + 1]
Ports == 0..(Len(pcs) - 1)

\* ------------------------------------------------------------ arithmetic
\* Bit i of a Python int (two's complement, also for negative x).
Bit(x, i) == (x \div (2 ^ i)) % 2

RECURSIVE And8From(_, _, _)
And8From(x, y, i) ==
  IF i > 7 THEN 0 ELSE Bit(x, i) * Bit(y, i) * (2 ^ i) + And8From(x, y, i + 1)
\* (x & y) & 0xFF
And8(x, y) == And8From(x, y, 0)

RECURSIVE Xor8From(_, _, _)
Xor8From(x, y, i) ==
  IF i > 7 THEN 0 ELSE ((Bit(x, i) + Bit(y, i)) % 2) * (2 ^ i) + Xor8From(x, y, i + 1)
\* x ^ y for two bytes
Xor8(x, y) == Xor8From(x, y, 0)

\* max(0, min(hi, v))
Clamp(v, hi) == IF v < 0 THEN 0 ELSE IF v > hi THEN hi ELSE v

Max(S) == CHOOSE m \in S : \A n \in S : n <= m

\* MCP23017.set_led_only: the byte written to OLATB.
SetLedOnly_lit(index) == IF index < 0 THEN 255 ELSE And8(255, 2 ^ index)
SetLedOnly_dark(index) == IF index < 0 THEN 0 ELSE And8(255, (0 - (2 ^ index)) - 1)
SetLedOnly(index) == IF index < 0 THEN 255 ELSE And8(255, (0 - (2 ^ index)) - 1)

\* 0 <= idx < len(self.pcs)
InRange(i) == 0 <= i /\ i < Len(pcs)

\* changed = self.last_sw_state ^ state
Changed(last, st) == Xor8(last, st)

\* rising = (~self.last_sw_state) & state & 0xFF
Rising_press(last, st) == And8(And8(last, (0 - st) - 1), 255)
Rising(last, st) == And8(And8((0 - last) - 1, st), 255)

\* self.swbit_to_index.get(bit): the ports stored under key bit (a later
\* table entry overwrites an earlier one), the empty set for None.
SwbitToIndex(bit) ==
  LET S == {p \in Ports : PC(p).sw_bit = bit}
  IN  IF S = {} THEN {} ELSE {Max(S)}

\* for bit in range(7, -1, -1): the argument of the select_pc call the loop
\* makes before its break, the empty set when it makes none.
RECURSIVE ScanFrom(_, _, _)
ScanFrom(rising, bit, step) ==
  IF bit < 0 \/ bit > 7 THEN {}
  ELSE IF Bit(rising, bit) = 1 /\ SwbitToIndex(bit) # {} THEN SwbitToIndex(bit)
  ELSE ScanFrom(rising, bit + step, step)
ScanRising_up(rising) == ScanFrom(rising, 0, 1)
ScanRising(rising) == ScanFrom(rising, 7, 0 - 1)

\* ------------------------------------------------------------ state
PinNames == {"ts3_oe", "ts3_s", "A_en_n", "A_s1", "A_s0", "B_en_n", "B_s1", "B_s0",
             "e1_n", "a2", "a1", "a0"}
Threads == {"main", "irq"}

\* Values read_gpioa can return: the operated switches are SW0..SW(MaxSw-1),
\* a pressed switch reads 0, every other bit reads 1 (pull-up).
RECURSIVE PressedMask(_)
PressedMask(S) ==
  IF S = {} THEN 0
  ELSE LET s == CHOOSE x \in S : TRUE
       IN  (2 ^ PC(s).sw_bit) + PressedMask(S \ {s})
Samples == {255 - PressedMask(S) : S \in SUBSET (0..(MaxSw - 1))}

\* Arguments given to select_pc by a caller of the public API.
Args == (0 - ArgSpan)..(Len(pcs) - 1 + ArgSpan)

\* OLATB before the program writes it: reset value or a previous run's.
LatchAtReset == {0, 255}

VARIABLES
  pin,            \* level of every output pin of the route devices
  olatb,          \* last byte in the LED output latch (OLATB)
  selected,       \* self.selected
  last_sw_state,  \* self.last_sw_state
  pc,             \* per thread: label of the line about to execute
  op,             \* per thread: the top-level operation it is running
  idx,            \* per thread: argument idx of select_pc
  state,          \* local `state` of _on_mcp_int
  lastRead,       \* value most recently returned by read_gpioa
  irqOn,          \* the handler has been registered (line 240)
  preempts,       \* handler runs that started while an API call was running
  pre,            \* per thread: snapshot taken when its operation started
  wr,             \* per thread: pins written since its operation started
  calls,          \* select_pc arguments passed by the current handler run
  prevop,         \* the operation that completed most recently
  cfg,            \* pins whose Pin object has been created in output mode
  cmd             \* parts of the console line main() is processing

vars == <<pin, olatb, selected, last_sw_state, pc, op, idx, state, lastRead,
          irqOn, preempts, pre, wr, calls, prevop, cfg, cmd>>

Snap == [pin |-> pin, olatb |-> olatb, selected |-> selected, last |-> last_sw_state]
\* The snapshot slot of a thread that runs no operation.
NoSnap == [pin |-> [n \in PinNames |-> 1], olatb |-> 255, selected |-> Unassigned,
           last |-> Unassigned]

Init ==
  /\ pin \in [PinNames -> {0, 1}]
  /\ olatb \in LatchAtReset
  /\ selected = Unassigned
  /\ last_sw_state = Unassigned
  /\ pc = [t \in Threads |-> IF t = "main" THEN "L205_ts3_oe" ELSE "idle"]
  /\ op = [t \in Threads |-> IF t = "main" THEN "ctor" ELSE "none"]
  /\ idx = [t \in Threads |-> Unassigned]
  /\ state = Unassigned
  /\ lastRead = Unassigned
  /\ irqOn = FALSE
  /\ preempts = 0
  /\ pre = [t \in Threads |-> NoSnap]
  /\ wr = [t \in Threads |-> {}]
  /\ calls = <<>>
  /\ prevop = "none"
  /\ cfg = {}
  /\ cmd = <<>>

\* ------------------------------------------------------------ control flow
\* The handler runs to completion once started; main runs otherwise.
Running(t) == IF t = "irq" THEN pc["irq"] # "idle" ELSE pc["irq"] = "idle"

\* Return target of _disconnect_all.
AfterDisconnectAll(t) ==
  IF op[t] = "ctor" THEN "L237"
  ELSE IF op[t] \in {"disconnect", "exit"} THEN "L298" ELSE "L294"

\* Return target of select_pc.
AfterSelectPc(t) == IF t = "irq" THEN "L333" ELSE "ret"

\* First line of the branch of _route_to_pc taken for pc.mux_side.
MuxBranch(t) == IF PC(idx[t]).mux_side = "A" THEN "L265_s0" ELSE "L269_s0"

\* The label that follows label l in straight-line code.
Succ(t, l) ==
  CASE l = "L205_ts3_oe" -> "L205_ts3_s"
    [] l = "L205_ts3_s" -> "L134"
    [] l = "L134" -> "L135"
    [] l = "L135" -> "L206_A_en_n"
    [] l = "L206_A_en_n" -> "L206_A_s1"
    [] l = "L206_A_s1" -> "L206_A_s0"
    [] l = "L206_A_s0" -> "L113_A_en_n"
    [] l = "L113_A_en_n" -> "L113_A_s1"
    [] l = "L113_A_s1" -> "L113_A_s0"
    [] l = "L113_A_s0" -> "L114_A"
    [] l = "L114_A" -> "L207_B_en_n"
    [] l = "L207_B_en_n" -> "L207_B_s1"
    [] l = "L207_B_s1" -> "L207_B_s0"
    [] l = "L207_B_s0" -> "L113_B_en_n"
    [] l = "L113_B_en_n" -> "L113_B_s1"
    [] l = "L113_B_s1" -> "L113_B_s0"
    [] l = "L113_B_s0" -> "L114_B"
    [] l = "L114_B" -> "L208_e1_n"
    [] l = "L208_e1_n" -> "L208_a2"
    [] l = "L208_a2" -> "L208_a1"
    [] l = "L208_a1" -> "L208_a0"
    [] l = "L208_a0" -> "L147_e1_n"
    [] l = "L147_e1_n" -> "L147_a2"
    [] l = "L147_a2" -> "L147_a1"
    [] l = "L147_a1" -> "L147_a0"
    [] l = "L147_a0" -> "L148"
    [] l = "L148" -> "L82"
    [] l = "L82" -> "L88"
    [] l = "L88" -> "L231"
    [] l = "L231" -> "L232"
    [] l = "L232" -> "L245"
    [] l = "L245" -> "L246"
    [] l = "L246" -> "L247"
    [] l = "L247" -> "L249"
    [] l = "L249" -> "L250"
    [] l = "L250" -> AfterDisconnectAll(t)
    [] l = "L237" -> "L240"
    [] l = "L240" -> "ret"
    [] l = "L254" -> "L255"
    [] l = "L255" -> "L256"
    [] l = "L256" -> "L257"
    [] l = "L257" -> "L261_a0"
    [] l = "L261_a0" -> "L261_a1"
    [] l = "L261_a1" -> "L261_a2"
    [] l = "L261_a2" -> MuxBranch(t)
    [] l = "L265_s0" -> "L265_s1"
    [] l = "L265_s1" -> "L265_en"
    [] l = "L265_en" -> "L266"
    [] l = "L266" -> "L267"
    [] l = "L267" -> "L274"
    [] l = "L269_s0" -> "L269_s1"
    [] l = "L269_s1" -> "L269_en"
    [] l = "L269_en" -> "L270"
    [] l = "L270" -> "L271"
    [] l = "L271" -> "L274"
    [] l = "L274" -> "L277"
    [] l = "L277" -> "L278"
    [] l = "L278" -> "L280"
    [] l = "L280" -> "L294"
    [] l = "L294" -> AfterSelectPc(t)
    [] l = "L298" -> "ret"
    [] l = "L317" -> "L318"
    [] l = "L318" -> "L319"
    [] l = "L333" -> "ret"

Advance(t) == pc' = [pc EXCEPT ![t] = Succ(t, pc[t])]
Goto(t, l) == pc' = [pc EXCEPT ![t] = l]

\* Pin.value(v) / Pin.init(Pin.OUT, value=v) on pin n by thread t.
WritePin(t, n, v) ==
  /\ pin' = [pin EXCEPT ![n] = v]
  /\ wr' = [wr EXCEPT ![t] = @ \cup {n}]

\* The PI3USB14 instance a label belongs to.
MuxOf(l) ==
  IF l \in {"L113_A_en_n", "L113_A_s1", "L113_A_s0", "L114_A", "L246", "L255",
            "L265_s0", "L265_s1", "L265_en", "L270"}
  THEN "A" ELSE "B"

MuxPin(m, n) == IF m = "A" THEN "A_" \o n ELSE "B_" \o n

Regs == <<olatb, selected, last_sw_state>>
Frame == <<op, idx, state, lastRead, irqOn, preempts, pre, calls, prevop, cfg, cmd>>

At(t, L) == Running(t) /\ pc[t] \in L

\* ------------------------------------------------------------ constructors
\* The label of the Pin(n, Pin.OUT) argument that creates each pin.
PinLabel ==
  [n \in PinNames |->
     CASE n \in {"ts3_oe", "ts3_s"} -> "L205_" \o n
       [] n \in {"A_en_n", "A_s1", "A_s0"} -> "L206_" \o n
       [] n \in {"B_en_n", "B_s1", "B_s0"} -> "L207_" \o n
       [] OTHER -> "L208_" \o n]

\* Pin(n, Pin.OUT), evaluated as an argument of a device constructor: the pin
\* becomes an output; no value is given, so its level is not written.
Pin_out ==
  /\ At("main", {PinLabel[n] : n \in PinNames})
  /\ cfg' = cfg \cup {n \in PinNames : PinLabel[n] = pc["main"]}
  /\ Advance("main")
  /\ UNCHANGED <<pin, wr, Regs, op, idx, state, lastRead, irqOn, preempts, pre,
                 calls, prevop, cmd>>

\* TS3USB30.__init__: oe.init(value=1), then s.init(value=0).
TS3USB30_init ==
  /\ At("main", {"L134", "L135"})
  /\ IF pc["main"] = "L134" THEN WritePin("main", "ts3_oe", 1)
                            ELSE WritePin("main", "ts3_s", 0)
  /\ Advance("main")
  /\ UNCHANGED <<Regs, Frame>>

\* PI3USB14.__init__: for p in (en_n, s1, s0): p.init(Pin.OUT, value=1).
PI3USB14_init ==
  /\ At("main", {"L113_A_en_n", "L113_A_s1", "L113_A_s0",
                 "L113_B_en_n", "L113_B_s1", "L113_B_s0"})
  /\ LET l == pc["main"]
         n == IF l \in {"L113_A_en_n", "L113_B_en_n"} THEN "en_n"
              ELSE IF l \in {"L113_A_s1", "L113_B_s1"} THEN "s1" ELSE "s0"
     IN  WritePin("main", MuxPin(MuxOf(l), n), 1)
  /\ Advance("main")
  /\ UNCHANGED <<Regs, Frame>>

\* HC137.__init__: for p in (e1_n, a2, a1, a0): p.init(Pin.OUT, value=1).
HC137_init ==
  /\ At("main", {"L147_e1_n", "L147_a2", "L147_a1", "L147_a0"})
  /\ LET l == pc["main"]
         n == CASE l = "L147_e1_n" -> "e1_n" [] l = "L147_a2" -> "a2"
                [] l = "L147_a1" -> "a1" [] l = "L147_a0" -> "a0"
     IN  WritePin("main", n, 1)
  /\ Advance("main")
  /\ UNCHANGED <<Regs, Frame>>

\* HC137.all_off, called at the end of HC137.__init__.
HC137_all_off ==
  /\ At("main", {"L148"})
  /\ WritePin("main", "e1_n", 1)
  /\ Advance("main")
  /\ UNCHANGED <<Regs, Frame>>

\* MCP23017.__init__: the write of OLATB (all LEDs off).
MCP23017_init_olatb ==
  /\ At("main", {"L82"})
  /\ olatb' = 255
  /\ Advance("main")
  /\ UNCHANGED <<pin, selected, last_sw_state, wr, Frame>>

\* MCP23017.__init__: the first read of GPIOA, whose value is dropped.
MCP23017_init_read ==
  /\ At("main", {"L88"})
  /\ \E v \in Samples : lastRead' = v
  /\ Advance("main")
  /\ UNCHANGED <<pin, Regs, wr, op, idx, state, irqOn, preempts, pre, calls, prevop, cfg, cmd>>

\* Usb8Selector.__init__: self.selected = -1.
Ctor_selected ==
  /\ At("main", {"L231"})
  /\ selected' = 0 - 1
  /\ Advance("main")
  /\ UNCHANGED <<pin, olatb, last_sw_state, wr, Frame>>

\* Usb8Selector.__init__: self.last_sw_state = self.io.read_gpioa().
Ctor_read_sw ==
  /\ At("main", {"L232"})
  /\ \E v \in Samples : lastRead' = v /\ last_sw_state' = v
  /\ Advance("main")
  /\ UNCHANGED <<pin, olatb, selected, wr, op, idx, state, irqOn, preempts, pre,
                 calls, prevop, cfg, cmd>>

\* Usb8Selector.__init__: self.inta_pin.irq(handler=self._on_mcp_int, ...).
Ctor_irq ==
  /\ At("main", {"L240"})
  /\ irqOn' = TRUE
  /\ Advance("main")
  /\ UNCHANGED <<pin, Regs, wr, op, idx, state, lastRead, preempts, pre, calls, prevop, cfg, cmd>>

\* ------------------------------------------------------------ device calls
TS3USB30_disable_skip(t) ==
  /\ At(t, {"L245", "L254"})
  /\ Advance(t)
  /\ UNCHANGED <<pin, wr, Regs, Frame>>
TS3USB30_disable_toggle(t) ==
  /\ At(t, {"L245", "L254"})
  /\ WritePin(t, "ts3_oe", 1 - pin["ts3_oe"])
  /\ Advance(t)
  /\ UNCHANGED <<Regs, Frame>>
\* self.ts3.disable()
TS3USB30_disable(t) ==
  /\ At(t, {"L245", "L254"})
  /\ WritePin(t, "ts3_oe", 1)
  /\ Advance(t)
  /\ UNCHANGED <<Regs, Frame>>

PI3USB14_disable_skip(t) ==
  /\ At(t, {"L114_A", "L114_B", "L246", "L247", "L255", "L256", "L266", "L270"})
  /\ Advance(t)
  /\ UNCHANGED <<pin, wr, Regs, Frame>>
\* self.muxA.disable() / self.muxB.disable()
PI3USB14_disable(t) ==
  /\ At(t, {"L114_A", "L114_B", "L246", "L247", "L255", "L256", "L266", "L270"})
  /\ WritePin(t, MuxPin(MuxOf(pc[t]), "en_n"), 1)
  /\ Advance(t)
  /\ UNCHANGED <<Regs, Frame>>

HC137_disable_skip(t) ==
  /\ At(t, {"L249", "L257"})
  /\ Advance(t)
  /\ UNCHANGED <<pin, wr, Regs, Frame>>
\* self.hc137.disable()
HC137_disable(t) ==
  /\ At(t, {"L249", "L257"})
  /\ WritePin(t, "e1_n", 1)
  /\ Advance(t)
  /\ UNCHANGED <<Regs, Frame>>

\* self.hc137.select_addr(pc.hc_addr): a0, a1, a2 are written in this order.
HC137_select_addr(t) ==
  /\ At(t, {"L261_a0", "L261_a1", "L261_a2"})
  /\ LET a == Clamp(PC(idx[t]).hc_addr, 7)
     IN  CASE pc[t] = "L261_a0" -> WritePin(t, "a0", Bit(a, 0))
           [] pc[t] = "L261_a1" -> WritePin(t, "a1", Bit(a, 1))
           [] pc[t] = "L261_a2" -> WritePin(t, "a2", Bit(a, 2))
  /\ Advance(t)
  /\ UNCHANGED <<Regs, Frame>>

PI3USB14_select_swapped(t) ==
  /\ At(t, {"L265_s0", "L265_s1", "L269_s0", "L269_s1"})
  /\ LET p == Clamp(PC(idx[t]).mux_sel, 3)
         m == MuxOf(pc[t])
     IN  IF pc[t] \in {"L265_s0", "L269_s0"}
         THEN WritePin(t, MuxPin(m, "s0"), Bit(p, 1))
         ELSE WritePin(t, MuxPin(m, "s1"), Bit(p, 0))
  /\ Advance(t)
  /\ UNCHANGED <<Regs, Frame>>
\* self.muxA.select(pc.mux_sel) / self.muxB.select(pc.mux_sel): s0, then s1.
PI3USB14_select(t) ==
  /\ At(t, {"L265_s0", "L265_s1", "L269_s0", "L269_s1"})
  /\ LET p == Clamp(PC(idx[t]).mux_sel, 3)
         m == MuxOf(pc[t])
     IN  IF pc[t] \in {"L265_s0", "L269_s0"}
         THEN WritePin(t, MuxPin(m, "s0"), Bit(p, 0))
         ELSE WritePin(t, MuxPin(m, "s1"), Bit(p, 1))
  /\ Advance(t)
  /\ UNCHANGED <<Regs, Frame>>

PI3USB14_enable_both(t) ==
  /\ At(t, {"L265_en", "L269_en"})
  /\ pin' = [pin EXCEPT !["A_en_n"] = 0, !["B_en_n"] = 0]
  /\ wr' = [wr EXCEPT ![t] = @ \cup {"A_en_n", "B_en_n"}]
  /\ Advance(t)
  /\ UNCHANGED <<Regs, Frame>>
\* self.muxA.enable() / self.muxB.enable()
PI3USB14_enable(t) ==
  /\ At(t, {"L265_en", "L269_en"})
  /\ WritePin(t, MuxPin(MuxOf(pc[t]), "en_n"), 0)
  /\ Advance(t)
  /\ UNCHANGED <<Regs, Frame>>

\* self.ts3.route_to_A() (line 267) / self.ts3.route_to_B() (line 271)
TS3USB30_route(t) ==
  /\ At(t, {"L267", "L271"})
  /\ WritePin(t, "ts3_s", IF pc[t] = "L267" THEN 1 ELSE 0)
  /\ Advance(t)
  /\ UNCHANGED <<Regs, Frame>>

HC137_enable_skip(t) ==
  /\ At(t, {"L274"})
  /\ Advance(t)
  /\ UNCHANGED <<pin, wr, Regs, Frame>>
\* self.hc137.enable()
HC137_enable(t) ==
  /\ At(t, {"L274"})
  /\ WritePin(t, "e1_n", 0)
  /\ Advance(t)
  /\ UNCHANGED <<Regs, Frame>>

\* utime.sleep_ms(2)
Settle(t) ==
  /\ At(t, {"L277"})
  /\ Advance(t)
  /\ UNCHANGED <<pin, wr, Regs, Frame>>

\* self.ts3.enable()
TS3USB30_enable(t) ==
  /\ At(t, {"L278"})
  /\ WritePin(t, "ts3_oe", 0)
  /\ Advance(t)
  /\ UNCHANGED <<Regs, Frame>>

\* _disconnect_all: self.selected = -1
SetSelectedNone(t) ==
  /\ At(t, {"L250"})
  /\ selected' = 0 - 1
  /\ Advance(t)
  /\ UNCHANGED <<pin, wr, olatb, last_sw_state, Frame>>

\* _route_to_pc: self.selected = pc.index
SetSelected(t) ==
  /\ At(t, {"L280"})
  /\ selected' = PC(idx[t]).index
  /\ Advance(t)
  /\ UNCHANGED <<pin, wr, olatb, last_sw_state, Frame>>

\* _update_leds: self.io.set_led_only(self.selected), one write of OLATB.
update_leds(t) ==
  /\ At(t, {"L237", "L294", "L298"})
  /\ olatb' = SetLedOnly(selected)
  /\ Advance(t)
  /\ UNCHANGED <<pin, wr, selected, last_sw_state, Frame>>

select_pc_always(t) ==
  /\ At(t, {"L289"})
  /\ IF ~InRange(idx[t]) THEN Goto(t, "L245") ELSE Goto(t, "L254")
  /\ UNCHANGED <<pin, wr, Regs, Frame>>
\* select_pc: the tests of lines 289 and 292.
select_pc(t) ==
  /\ At(t, {"L289"})
  /\ IF ~InRange(idx[t]) THEN Goto(t, "L245")
     ELSE IF idx[t] # selected THEN Goto(t, "L254")
     ELSE Goto(t, "L294")
  /\ UNCHANGED <<pin, wr, Regs, Frame>>

\* ------------------------------------------------------------ public API
\* A caller invokes select_pc(i).
CallSelectPc(i) ==
  /\ At("main", {"idle"})
  /\ pc' = [pc EXCEPT !["main"] = "L289"]
  /\ op' = [op EXCEPT !["main"] = "select_pc"]
  /\ idx' = [idx EXCEPT !["main"] = i]
  /\ pre' = [pre EXCEPT !["main"] = Snap]
  /\ wr' = [wr EXCEPT !["main"] = {}]
  /\ UNCHANGED <<pin, Regs, state, lastRead, irqOn, preempts, calls, prevop, cfg, cmd>>

\* A caller invokes disconnect().
CallDisconnect ==
  /\ At("main", {"idle"})
  /\ pc' = [pc EXCEPT !["main"] = "L245"]
  /\ op' = [op EXCEPT !["main"] = "disconnect"]
  /\ pre' = [pre EXCEPT !["main"] = Snap]
  /\ wr' = [wr EXCEPT !["main"] = {}]
  /\ UNCHANGED <<pin, Regs, idx, state, lastRead, irqOn, preempts, calls, prevop, cfg, cmd>>

\* The operation of thread t returns to its caller.
Return(t) ==
  /\ At(t, {"ret"}) /\ op[t] # "exit"
  /\ pc' = [pc EXCEPT ![t] = "idle"]
  /\ prevop' = op[t]
  /\ op' = [op EXCEPT ![t] = "none"]
  /\ idx' = [idx EXCEPT ![t] = Unassigned]
  /\ pre' = [pre EXCEPT ![t] = NoSnap]
  /\ wr' = [wr EXCEPT ![t] = {}]
  /\ state' = IF t = "irq" THEN Unassigned ELSE state
  /\ calls' = IF t = "irq" THEN <<>> ELSE calls
  /\ cmd' = IF t = "main" THEN <<>> ELSE cmd
  /\ UNCHANGED <<pin, Regs, lastRead, irqOn, preempts, cfg>>

\* ------------------------------------------------------------ interrupt
StartHandler ==
  /\ pc' = [pc EXCEPT !["irq"] = "L317"]
  /\ op' = [op EXCEPT !["irq"] = "irq"]
  /\ pre' = [pre EXCEPT !["irq"] = Snap]
  /\ wr' = [wr EXCEPT !["irq"] = {}]
  /\ calls' = <<>>
  /\ UNCHANGED <<pin, Regs, idx, state, lastRead, irqOn, prevop, cfg, cmd>>

\* INTA changes level while no operation is running: _on_mcp_int starts.
IrqFire ==
  /\ irqOn /\ pc["irq"] = "idle" /\ pc["main"] = "idle"
  /\ StartHandler
  /\ UNCHANGED preempts

\* INTA changes level between two steps of a running select_pc/disconnect.
IrqPreempt ==
  /\ irqOn /\ pc["irq"] = "idle" /\ pc["main"] \notin {"idle", "ret"}
  /\ preempts < MaxPreempt /\ prevop = "ctor"
  /\ preempts' = preempts + 1
  /\ StartHandler

\* utime.sleep_ms(self.debounce_ms)
Debounce ==
  /\ At("irq", {"L317"})
  /\ Advance("irq")
  /\ UNCHANGED <<pin, wr, Regs, Frame>>

\* state = self.io.read_gpioa()
ReadGpioa ==
  /\ At("irq", {"L318"})
  /\ \E v \in Samples : state' = v /\ lastRead' = v
  /\ Advance("irq")
  /\ UNCHANGED <<pin, wr, Regs, op, idx, irqOn, preempts, pre, calls, prevop, cfg, cmd>>

CheckChanged_never ==
  /\ At("irq", {"L319"})
  /\ Goto("irq", "L323")
  /\ UNCHANGED <<pin, wr, Regs, Frame>>
\* changed = self.last_sw_state ^ state; if changed == 0: return
CheckChanged ==
  /\ At("irq", {"L319"})
  /\ IF Changed(last_sw_state, state) = 0 THEN Goto("irq", "ret")
                                          ELSE Goto("irq", "L323")
  /\ UNCHANGED <<pin, wr, Regs, Frame>>

DetectRelease_press_disconnects ==
  /\ At("irq", {"L323"})
  /\ LET rising == Rising(last_sw_state, state)
         c == IF rising # 0 THEN ScanRising(rising) ELSE {0 - 1}
     IN  /\ idx' = [idx EXCEPT !["irq"] = Max(c)]
         /\ calls' = Append(calls, Max(c))
         /\ Goto("irq", "L289")
  /\ UNCHANGED <<pin, wr, Regs, op, state, lastRead, irqOn, preempts, pre, prevop, cfg, cmd>>
\* Lines 323-332: the rising edges and the scan that calls select_pc(idx).
DetectRelease ==
  /\ At("irq", {"L323"})
  /\ LET rising == Rising(last_sw_state, state)
         c == IF rising # 0 THEN ScanRising(rising) ELSE {}
     IN  IF c = {}
         THEN Goto("irq", "L333") /\ UNCHANGED <<idx, calls>>
         ELSE /\ idx' = [idx EXCEPT !["irq"] = Max(c)]
              /\ calls' = Append(calls, Max(c))
              /\ Goto("irq", "L289")
  /\ UNCHANGED <<pin, wr, Regs, op, state, lastRead, irqOn, preempts, pre, prevop, cfg, cmd>>

StoreSample_skip ==
  /\ At("irq", {"L333"})
  /\ Advance("irq")
  /\ UNCHANGED <<pin, wr, Regs, Frame>>
\* self.last_sw_state = state
StoreSample ==
  /\ At("irq", {"L333"})
  /\ last_sw_state' = state
  /\ Advance("irq")
  /\ UNCHANGED <<pin, wr, olatb, selected, Frame>>

\* ------------------------------------------------------------ bus failure
\* _write8 raises OSError inside set_led_only: OLATB keeps its byte and the
\* exception leaves _update_leds and the operation that called it.
BusFail(t) ==
  /\ At(t, {"L237", "L294", "L298"})
  /\ Goto(t, "exc")
  /\ UNCHANGED <<pin, wr, Regs, Frame>>

\* An exception that leaves _on_mcp_int ends the handler run; line 333 is not
\* executed. (main() catches no OSError: there the program stops.)
HandlerAbort ==
  /\ At("irq", {"exc"})
  /\ pc' = [pc EXCEPT !["irq"] = "idle"]
  /\ prevop' = "raised"
  /\ op' = [op EXCEPT !["irq"] = "none"]
  /\ idx' = [idx EXCEPT !["irq"] = Unassigned]
  /\ pre' = [pre EXCEPT !["irq"] = NoSnap]
  /\ wr' = [wr EXCEPT !["irq"] = {}]
  /\ state' = Unassigned
  /\ calls' = <<>>
  /\ UNCHANGED <<pin, Regs, lastRead, irqOn, preempts, cfg, cmd>>

\* ------------------------------------------------------------ console
Blank == <<" ">>
Help == <<"h", "e", "l", "p">>
Status == <<"s", "t", "a", "t", "u", "s">>
Disconnect == <<"d", "i", "s", "c", "o", "n", "n", "e", "c", "t">>
Select == <<"s", "e", "l", "e", "c", "t">>

\* Words typed after "select".
ArgWords ==
  {<<"0">>, <<"5">>, <<"7">>, <<"8">>, <<"-", "1">>, <<"1", "2">>, <<"+", "3">>,
   <<"x">>, <<"3", "x">>, <<"-">>}

\* Lines read from the console, as words and runs of white space.
Lines ==
  {<<>>, <<Blank>>, <<Help>>, <<Status>>, <<Disconnect>>, <<Select>>,
   <<<<"o", "f", "f">>>>, <<Blank, Select, Blank, Blank, <<"7">>, Blank>>,
   <<Select, Blank, <<"1">>, Blank, <<"9">>>>}
  \cup {<<Select, Blank, w>> : w \in ArgWords}

\* cmd.strip().split(): the words of the line.
Split(line) == SelectSeq(line, LAMBDA w : w # Blank)

DigitVal ==
  [c \in {"0", "1", "2", "3", "4", "5", "6", "7", "8", "9"} |->
     CASE c = "0" -> 0 [] c = "1" -> 1 [] c = "2" -> 2 [] c = "3" -> 3
       [] c = "4" -> 4 [] c = "5" -> 5 [] c = "6" -> 6 [] c = "7" -> 7
       [] c = "8" -> 8 [] c = "9" -> 9]

RECURSIVE Decimal(_)
Decimal(w) ==
  IF w = <<>> THEN 0
  ELSE 10 * Decimal(SubSeq(w, 1, Len(w) - 1)) + DigitVal[w[Len(w)]]

\* int(word): the set holding its value, empty where int raises ValueError.
IntOf(w) ==
  LET signed == w # <<>> /\ w[1] \in {"-", "+"}
      digits == IF signed THEN Tail(w) ELSE w
      sign == IF signed /\ w[1] = "-" THEN 0 - 1 ELSE 1
  IN  IF digits # <<>> /\ \A i \in 1..Len(digits) : digits[i] \in DOMAIN DigitVal
      THEN {sign * Decimal(digits)}
      ELSE {}

Dispatch_norange(parts) ==
  IF parts = <<>> THEN [kind |-> "empty", idx |-> Unassigned]
  ELSE IF parts[1] = Help THEN [kind |-> "help", idx |-> Unassigned]
  ELSE IF parts[1] = Status THEN [kind |-> "status", idx |-> Unassigned]
  ELSE IF parts[1] = Disconnect THEN [kind |-> "disconnect", idx |-> Unassigned]
  ELSE IF parts[1] = Select /\ Len(parts) > 1
       THEN IF IntOf(parts[2]) = {} THEN [kind |-> "err_int", idx |-> Unassigned]
            ELSE [kind |-> "select_pc", idx |-> CHOOSE v \in IntOf(parts[2]) : TRUE]
  ELSE [kind |-> "err_unknown", idx |-> Unassigned]
\* The if/elif chain of main(): what the loop does with the words of a line.
Dispatch(parts) ==
  IF parts = <<>> THEN [kind |-> "empty", idx |-> Unassigned]
  ELSE IF parts[1] = Help THEN [kind |-> "help", idx |-> Unassigned]
  ELSE IF parts[1] = Status THEN [kind |-> "status", idx |-> Unassigned]
  ELSE IF parts[1] = Disconnect THEN [kind |-> "disconnect", idx |-> Unassigned]
  ELSE IF parts[1] = Select /\ Len(parts) > 1
       THEN IF IntOf(parts[2]) = {} THEN [kind |-> "err_int", idx |-> Unassigned]
            ELSE LET v == CHOOSE x \in IntOf(parts[2]) : TRUE
                 IN  IF 0 <= v /\ v <= 7 THEN [kind |-> "select_pc", idx |-> v]
                     ELSE [kind |-> "err_range", idx |-> Unassigned]
  ELSE [kind |-> "err_unknown", idx |-> Unassigned]

\* One pass of the loop of main() that reads a line: sel.select_pc(idx) and
\* sel.disconnect() start the operation; every other branch only prints.
Console(line) ==
  /\ At("main", {"idle"})
  /\ LET d == Dispatch(Split(line))
     IN  /\ cmd' = Split(line)
         /\ op' = [op EXCEPT !["main"] = d.kind]
         /\ idx' = [idx EXCEPT !["main"] = d.idx]
         /\ pc' = [pc EXCEPT !["main"] =
                     IF d.kind = "select_pc" THEN "L289"
                     ELSE IF d.kind = "disconnect" THEN "L245" ELSE "ret"]
  /\ pre' = [pre EXCEPT !["main"] = Snap]
  /\ wr' = [wr EXCEPT !["main"] = {}]
  /\ UNCHANGED <<pin, Regs, state, lastRead, irqOn, preempts, calls, prevop, cfg>>

\* except KeyboardInterrupt: sel.disconnect(). The exception is raised in
\* the loop of main(), between two steps of whatever main is doing.
KeyboardInterrupt ==
  /\ pc["irq"] = "idle"
  /\ op["main"] \notin {"ctor", "exit"}
  /\ pc' = [pc EXCEPT !["main"] = "L245"]
  /\ op' = [op EXCEPT !["main"] = "exit"]
  /\ idx' = [idx EXCEPT !["main"] = Unassigned]
  /\ pre' = [pre EXCEPT !["main"] = Snap]
  /\ wr' = [wr EXCEPT !["main"] = {}]
  /\ cmd' = <<>>
  /\ UNCHANGED <<pin, Regs, state, lastRead, irqOn, preempts, calls, prevop, cfg>>

\* ------------------------------------------------------------ specifications
Construct ==
  \/ Pin_out
  \/ TS3USB30_init \/ PI3USB14_init \/ HC137_init \/ HC137_all_off
  \/ MCP23017_init_olatb \/ MCP23017_init_read
  \/ Ctor_selected \/ Ctor_read_sw \/ Ctor_irq

Step(t) ==
  \/ TS3USB30_disable(t) \/ PI3USB14_disable(t) \/ HC137_disable(t)
  \/ HC137_select_addr(t) \/ PI3USB14_select(t) \/ PI3USB14_enable(t)
  \/ TS3USB30_route(t) \/ HC137_enable(t) \/ Settle(t) \/ TS3USB30_enable(t)
  \/ SetSelectedNone(t) \/ SetSelected(t) \/ update_leds(t) \/ select_pc(t)
  \/ Return(t)

Handler == Debounce \/ ReadGpioa \/ CheckChanged \/ DetectRelease \/ StoreSample

\* Every operation runs to completion before the next one starts.
Next ==
  \/ Construct
  \/ \E t \in Threads : Step(t)
  \/ \E i \in Args : CallSelectPc(i)
  \/ CallDisconnect
  \/ IrqFire
  \/ Handler

Spec == Init /\ [][Next]_vars

\* The handler may also start between two steps of a running API call; the
\* exploration covers the preemption of the first call after construction.
NextIrq == Next \/ IrqPreempt

SpecIrq == Init /\ [][NextIrq]_vars

\* The LED write of _update_leds may fail.
NextBus == Next \/ (\E t \in Threads : BusFail(t)) \/ HandlerAbort

SpecBus == Init /\ [][NextBus]_vars

\* The program as main() runs it: operations start from console lines.
NextConsole ==
  \/ Construct
  \/ \E t \in Threads : Step(t)
  \/ \E line \in Lines : Console(line)
  \/ IrqFire
  \/ Handler

SpecConsole == Init /\ [][NextConsole]_vars

\* main() with the keyboard interrupt; the handler may start between two
\* steps of the sel.disconnect() of line 391.
NextExit == NextConsole \/ KeyboardInterrupt \/ (op["main"] = "exit" /\ IrqPreempt)

SpecExit == Init /\ [][NextExit]_vars

\* ------------------------------------------------------------ observations
Addr == 4 * pin["a2"] + 2 * pin["a1"] + pin["a0"]
MuxSel(m) == 2 * pin[MuxPin(m, "s1")] + pin[MuxPin(m, "s0")]
MuxEnabled(m) == pin[MuxPin(m, "en_n")] = 0
OtherMux(m) == IF m = "A" THEN "B" ELSE "A"
Ts3Side == IF pin["ts3_s"] = 1 THEN "A" ELSE "B"

AllDisabled ==
  /\ pin["ts3_oe"] = 1 /\ pin["A_en_n"] = 1 /\ pin["B_en_n"] = 1 /\ pin["e1_n"] = 1

RoutedTo(p) ==
  /\ pin["ts3_oe"] = 0 /\ Ts3Side = PC(p).ts3_side
  /\ MuxEnabled(PC(p).mux_side) /\ MuxSel(PC(p).mux_side) = PC(p).mux_sel
  /\ ~MuxEnabled(OtherMux(PC(p).mux_side))
  /\ pin["e1_n"] = 0 /\ Addr = PC(p).hc_addr

\* The power-enable line of port q is asserted.
Power(q) == pin["e1_n"] = 0 /\ Addr = PC(q).hc_addr

\* The byte with exactly bit b cleared.
OnlyBitCleared(byte, b) ==
  /\ byte \in 0..255
  /\ \A i \in 0..7 : Bit(byte, i) = (IF i = b THEN 0 ELSE 1)

\* No operation is in progress.
Quiescent == \A t \in Threads : pc[t] \in {"idle", "ret"}

\* select_pc, called by thread t, has just returned.
SelectPcDone(t) ==
  IF t = "main" THEN pc[t] = "ret" /\ op[t] = "select_pc"
                ELSE pc[t] = "L333" /\ calls # <<>>

Unchanged(t) ==
  /\ pin = pre[t].pin /\ olatb = pre[t].olatb /\ selected = pre[t].selected

\* Bits that were 0 in last_sw_state and are 1 in the sample of this run.
ReleasedBits == {b \in 0..7 : Bit(pre["irq"].last, b) = 0 /\ Bit(state, b) = 1}
ReleasedPorts == {p \in Ports : PC(p).sw_bit \in ReleasedBits}
Min(S) == CHOOSE m \in S : \A n \in S : m <= n

\* The enable line of the device each select, side or address line belongs to.
EnableOf ==
  [n \in {"ts3_s", "A_s1", "A_s0", "B_s1", "B_s0", "a2", "a1", "a0"} |->
     CASE n = "ts3_s" -> "ts3_oe"
       [] n \in {"A_s1", "A_s0"} -> "A_en_n"
       [] n \in {"B_s1", "B_s0"} -> "B_en_n"
       [] OTHER -> "e1_n"]

\* The labels of the lines that write pin n outside the constructors.
WriterLabels(n) ==
  CASE n = "ts3_s" -> {"L267", "L271"}
    [] n = "A_s0" -> {"L265_s0"} [] n = "A_s1" -> {"L265_s1"}
    [] n = "B_s0" -> {"L269_s0"} [] n = "B_s1" -> {"L269_s1"}
    [] n = "a0" -> {"L261_a0"} [] n = "a1" -> {"L261_a1"} [] n = "a2" -> {"L261_a2"}

\* This step writes pin n: its level changes, or a thread executes a line
\* that writes it.
Written(n) ==
  \/ pin'[n] # pin[n]
  \/ \E t \in Threads : pc[t] \in WriterLabels(n) /\ pc'[t] # pc[t]

\* The program has driven pin n since power-up.
Driven(n) == op["main"] # "ctor" \/ n \in wr["main"]

\* The port a running _route_to_pc is about to record, else the selected one.
PortInRoute ==
  IF \E t \in Threads : pc[t] = "L280"
  THEN idx[CHOOSE t \in Threads : pc[t] = "L280"]
  ELSE selected

\* The LED byte shows selected: one LED for a port, none for no selection.
LedMatchesSelected ==
  \/ selected \in Ports /\ OnlyBitCleared(olatb, PC(selected).led_bit)
  \/ selected = 0 - 1 /\ olatb = 255

\* The words of a line the console must reject: an unknown command, select
\* with a word that is no integer, select with an integer outside 0..7.
Rejected(parts) ==
  /\ parts # <<>>
  /\ \/ parts[1] \notin {Help, Status, Disconnect, Select}
     \/ /\ parts[1] = Select /\ Len(parts) > 1
        /\ \A v \in IntOf(parts[2]) : v < 0 \/ v > 7

\* ------------------------------------------------------------ claims
\* C1: at every quiescent point, selected = p in 0..7 means the two-way
\* switch is enabled on pcs[p].ts3_side, exactly the four-way switch
\* pcs[p].mux_side is enabled with select pcs[p].mux_sel, and the decoder is
\* enabled with address pcs[p].hc_addr; selected = -1 means all are disabled.
C1_RouteInvariant ==
  Quiescent =>
    \/ selected \in Ports /\ RoutedTo(selected)
    \/ selected = 0 - 1 /\ AllDisabled
C1_Witness ==
  /\ pc["irq"] = "ret" /\ pc["main"] = "idle"
  /\ pre["irq"].selected = 4 /\ selected = 1 /\ RoutedTo(1)

\* C2: when select_pc(p) has returned for a valid p, the LED byte has
\* exactly bit pcs[p].led_bit cleared and the seven other bits set.
C2_LedOfSelected ==
  \A t \in Threads :
    (SelectPcDone(t) /\ InRange(idx[t])) =>
      OnlyBitCleared(olatb, PC(idx[t]).led_bit)
C2_Witness ==
  /\ SelectPcDone("main") /\ idx["main"] = 6 /\ pre["main"].selected = 2
  /\ olatb = 191

\* C3: when disconnect() or select_pc(idx) with idx outside 0..7 has
\* returned, selected = -1, the LED byte is 0xFF and every route device is
\* disabled.
C3_DisconnectResult ==
  (pc["main"] = "ret" /\ (op["main"] = "disconnect"
                          \/ (op["main"] = "select_pc" /\ idx["main"] \notin 0..7))) =>
    (selected = 0 - 1 /\ olatb = 255 /\ AllDisabled)
C3_Witness ==
  /\ pc["main"] = "ret" /\ op["main"] = "select_pc" /\ idx["main"] < 0
  /\ pre["main"].selected = 3 /\ selected = 0 - 1

\* C4: select_pc(p) with p the selected port writes no pin of any route
\* device and leaves selected and the LED byte as they were.
C4_ReselectNoOp ==
  \A t \in Threads :
    (SelectPcDone(t) /\ idx[t] \in Ports /\ idx[t] = pre[t].selected) =>
      (wr[t] = {} /\ Unchanged(t))
C4_Witness ==
  /\ SelectPcDone("main") /\ idx["main"] = 4 /\ pre["main"].selected = 4
  /\ RoutedTo(4)

\* C5: in every state and across every single step, the power-enable lines
\* of two different ports are never both asserted: no state has both, and no
\* step hands power from one port straight to another (the decoder is
\* disabled in between).
C5_GlitchFree ==
  [][\A p1 \in Ports : \A p2 \in Ports \ {p1} :
       /\ ~(Power(p1) /\ Power(p2))
       /\ ~(Power(p1) /\ Power(p2)')]_vars
C5_Witness ==
  /\ pc["main"] = "L274" /\ op["main"] = "select_pc"
  /\ pre["main"].selected = 0 /\ idx["main"] = 5
  /\ Addr = PC(5).hc_addr /\ pin["e1_n"] = 1

\* C6: a handler run whose sample has no bit that went from 0 to 1 selects
\* nothing: selected, every pin and the LED byte are as before the run.
C6_PressSelectsNothing ==
  (pc["irq"] = "ret" /\ ReleasedBits = {}) =>
    (calls = <<>> /\ wr["irq"] = {} /\ Unchanged("irq"))
C6_Witness ==
  /\ pc["irq"] = "ret" /\ pre["irq"].last = 255 /\ state = 127
  /\ selected = 3 /\ last_sw_state = 127

\* C7: a handler run whose sample has released bits calls select_pc exactly
\* once, with the lowest port index among the released switches, and
\* selected is that index when the run ends.
C7_LowestReleasedPort ==
  (pc["irq"] = "ret" /\ ReleasedBits # {}) =>
    (calls = <<Min(ReleasedPorts)>> /\ selected = Min(ReleasedPorts))
C7_Witness ==
  /\ pc["irq"] = "ret" /\ pre["irq"].last = 63 /\ state = 255
  /\ pre["irq"].selected = 1 /\ selected = 0

\* C8: when the constructor returns, selected = -1, the LED byte is 0xFF,
\* every route device is disabled and last_sw_state is the value read from
\* the input bank.
C8_FreshStartup ==
  (pc["main"] = "ret" /\ op["main"] = "ctor") =>
    /\ selected = 0 - 1 /\ olatb = 255 /\ AllDisabled
    /\ last_sw_state = lastRead /\ last_sw_state \in Samples
C8_Witness ==
  /\ pc["main"] = "ret" /\ op["main"] = "ctor" /\ last_sw_state = 127
  /\ irqOn

\* C9: with handler runs between the steps of an API call, once both have
\* completed the LED byte and the route devices match selected.
C9_ConsistentAfterPreemption ==
  Quiescent =>
    \/ /\ selected \in Ports /\ RoutedTo(selected)
       /\ OnlyBitCleared(olatb, PC(selected).led_bit)
    \/ selected = 0 - 1 /\ AllDisabled /\ olatb = 255

\* C10: a disconnect() that follows a disconnect() leaves selected, every
\* pin, the LED byte and last_sw_state as the first one left them.
C10_DisconnectIdempotent ==
  (pc["main"] = "ret" /\ op["main"] = "disconnect" /\ prevop = "disconnect") =>
    Snap = pre["main"]
C10_Witness ==
  /\ pc["main"] = "ret" /\ op["main"] = "disconnect" /\ prevop = "disconnect"
  /\ "ts3_oe" \in wr["main"] /\ "e1_n" \in wr["main"]
  /\ Addr = PC(2).hc_addr

\* C13: a handler run whose sample equals last_sw_state is discarded at the
\* test of line 320: it has read the input bank, it goes from the test
\* straight to its return, it calls no select_pc, writes no pin and leaves
\* selected, the LED byte and last_sw_state as they were.
C13_SpuriousDiscarded ==
  (pc["irq"] \notin {"idle", "L317", "L318"} /\ state = pre["irq"].last) =>
    /\ pc["irq"] \in {"L319", "ret"}
    /\ lastRead = state
    /\ calls = <<>> /\ wr["irq"] = {} /\ Snap = pre["irq"]
C13_Witness ==
  /\ pc["irq"] = "ret" /\ state = 191 /\ pre["irq"].last = 191
  /\ selected = 2 /\ RoutedTo(2) /\ olatb = 251

\* C14: in every step of select_pc, disconnect and the handler, a select,
\* side or address line is written only while the enable line of its own
\* device is at its inactive level, before and after the step.
C14_SetBeforeEnable ==
  [][\A n \in DOMAIN EnableOf :
       (op["main"] # "ctor" /\ Written(n)) =>
         (pin[EnableOf[n]] = 1 /\ pin'[EnableOf[n]] = 1)]_vars
C14_Witness ==
  /\ pc["irq"] = "L269_s1" /\ "B_s0" \in wr["irq"] /\ pre["irq"].selected = 0
  /\ idx["irq"] = 1 /\ pre["irq"].pin["B_en_n"] = 0 /\ pin["B_en_n"] = 1

\* C15: once constructed, the two-way switch is enabled only in states where
\* the decoder is enabled with the address of the port being routed and the
\* four-way switch on the two-way switch's side is enabled with that port's
\* select value; _route_to_pc goes through: all disabled, address set,
\* four-way switch selected and enabled, decoder enabled, settle delay,
\* two-way switch enabled, selected assigned.
C15_PowerBeforeData ==
  /\ (op["main"] # "ctor" /\ pin["ts3_oe"] = 0) =>
       (/\ PortInRoute \in Ports
        /\ Power(PortInRoute)
        /\ Ts3Side = PC(PortInRoute).ts3_side
        /\ MuxEnabled(Ts3Side) /\ MuxSel(Ts3Side) = PC(PortInRoute).mux_sel)
  /\ \A t \in Threads :
       /\ pc[t] \in {"L261_a0", "L261_a1", "L261_a2", "L265_s0", "L269_s0"} => AllDisabled
       /\ pc[t] \in {"L265_s1", "L265_en", "L266", "L267",
                     "L269_s1", "L269_en", "L270", "L271"} =>
            (pin["e1_n"] = 1 /\ pin["ts3_oe"] = 1 /\ Addr = PC(idx[t]).hc_addr)
       /\ pc[t] = "L274" =>
            (/\ pin["e1_n"] = 1 /\ pin["ts3_oe"] = 1 /\ Addr = PC(idx[t]).hc_addr
             /\ MuxEnabled(PC(idx[t]).mux_side)
             /\ MuxSel(PC(idx[t]).mux_side) = PC(idx[t]).mux_sel)
       /\ pc[t] \in {"L277", "L278"} => (Power(idx[t]) /\ pin["ts3_oe"] = 1)
       /\ pc[t] = "L280" => (RoutedTo(idx[t]) /\ selected = pre[t].selected)
C15_Witness ==
  /\ pc["main"] = "L280" /\ idx["main"] = 7 /\ pre["main"].selected = 3
  /\ selected = 3 /\ RoutedTo(7)

\* C16: in every state, intermediate ones included, from the moment the
\* constructor has driven both enable lines, the two four-way switches are
\* not both enabled.
C16_OneMuxEnabled ==
  (Driven("A_en_n") /\ Driven("B_en_n")) => ~(MuxEnabled("A") /\ MuxEnabled("B"))
C16_Witness ==
  /\ pc["main"] = "L266" /\ idx["main"] = 4 /\ pre["main"].selected = 3
  /\ pre["main"].pin["B_en_n"] = 0 /\ MuxEnabled("A") /\ ~MuxEnabled("B")

\* C17: when a handler run returns, last_sw_state is the byte it sampled,
\* whether it selected a port, selected nothing or was discarded as
\* spurious.
C17_LastSampleStored ==
  pc["irq"] = "ret" => (last_sw_state = state /\ state = lastRead)
C17_Witness ==
  /\ pc["irq"] = "ret" /\ calls = <<1>> /\ pre["irq"].last = 63
  /\ state = 127 /\ last_sw_state = 127

\* C20: no step of a handler run sets selected to -1 or passes select_pc an
\* index outside 0..7; a handler run that starts with a port selected keeps
\* selected in 0..7 at every step; a handler run changes selected at most
\* once.
C20_PanelNeverDisconnects ==
  [][pc["irq"] # "idle" =>
       /\ selected' = 0 - 1 => selected = 0 - 1
       /\ \A k \in 1..Len(calls') : calls'[k] \in Ports
       /\ selected \in Ports => selected' \in Ports
       /\ selected' # selected =>
            (selected = pre["irq"].selected /\ selected' # pre["irq"].selected)]_vars
C20_Witness ==
  /\ pc["irq"] = "ret" /\ prevop = "irq" /\ pre["irq"].selected = 5
  /\ selected = 2 /\ calls = <<2>>

\* C11: when the LED write raises inside select_pc or disconnect, called by
\* main or by the handler, the exception leaves the call and the LED byte
\* still corresponds to selected.
C11_LedMatchesAfterFailure ==
  \A t \in Threads :
    (pc[t] = "exc" /\ op[t] # "ctor") => LedMatchesSelected

\* C12: when the keyboard interrupt has ended the loop of main() and the
\* program has run its sel.disconnect(), selected = -1, every route device is
\* disabled and the LED byte is 0xFF.
C12_ExitDisconnected ==
  (pc["main"] = "ret" /\ op["main"] = "exit" /\ pc["irq"] = "idle") =>
    (selected = 0 - 1 /\ AllDisabled /\ olatb = 255)

\* C18: while the route devices are constructed, a select, side or address
\* line is made an output or written only after the enable line of its
\* device has been driven to its inactive level, and each device is disabled
\* when its constructor has returned.
C18_EnableFirst ==
  op["main"] = "ctor" =>
    /\ \A n \in DOMAIN EnableOf :
         (n \in cfg \/ n \in wr["main"]) =>
           (EnableOf[n] \in wr["main"] /\ pin[EnableOf[n]] = 1)
    /\ pc["main"] = "L206_A_en_n" => pin["ts3_oe"] = 1
    /\ pc["main"] = "L207_B_en_n" => pin["A_en_n"] = 1
    /\ pc["main"] = "L208_e1_n" => pin["B_en_n"] = 1
    /\ pc["main"] = "L82" => pin["e1_n"] = 1

\* C19: a console line with an unknown command, with select and a word that
\* is no integer, or with select and an integer outside 0..7 only prints an
\* error: main starts no select_pc and no disconnect, writes no pin, leaves
\* selected, the LED byte and last_sw_state as they were, and goes on to the
\* next pass of its loop.
C19_BadCommandRejected ==
  Rejected(cmd) =>
    /\ pc["main"] = "ret"
    /\ op["main"] \in {"err_int", "err_range", "err_unknown"}
    /\ wr["main"] = {} /\ Snap = pre["main"]
C19_Witness ==
  /\ cmd = <<Select, <<"8">>>> /\ pc["main"] = "ret" /\ op["main"] = "err_range"
  /\ selected = 5 /\ RoutedTo(5) /\ olatb = 223
====
